---- MODULE Spec2Model ----
(***************************************************************************)
(* Model of ceGUI/ContainerControls.py (window lifecycle of BaseContainer, *)
(* Dialog, Frame, Panel, StandardDialog) and of ceGUI/DataEditors.py (the   *)
(* editing dialogs and their column bindings).                             *)
(*                                                                         *)
(* A window object is a record.  Every method of the source is an operator *)
(* that takes the class configuration and the object and returns the       *)
(* object after the call.  A call of an overridable hook or of a toolkit   *)
(* method is recorded by appending its name to the object's log; a raised  *)
(* exception is recorded in the field raised and stops every later step.   *)
(***************************************************************************)
EXTENDS Naturals, Sequences, FiniteSets

VARIABLES cfg, win, phase, op

vars == <<cfg, win, phase, op>>

\* Python's None
NoValue == "None"

\* no exception pending
NoError == ""

\* geometry values: the toolkit's default, the fitted size, and two the
\* user can drag the window to
Sizes == {"szA", "szB"}
Positions == {"posA", "posB"}
DefaultSize == "szDefault"
FitSize == "szFit"
DefaultPosition == "posDefault"
MinSizes == {NoValue, "szMin"}

ContainerClasses == {"Dialog", "Frame", "Panel", "StandardDialog"}

\* the editing dialogs of DataEditors.py, all subclasses of StandardDialog
EditClasses == {"EditDialog", "EditDialogChild", "EditDialogWithPanels"}

\* the classes that have EditDialog.OnPreUpdate and the refresh of
\* EditDialog.__init__
EditDialogClasses == {"EditDialog", "EditDialogChild"}

StandardDialogClasses == {"StandardDialog"} \cup EditClasses

DialogClasses == {"Dialog"} \cup StandardDialogClasses

\* the values a row attribute or a widget can hold: None, the empty string
\* and a non-empty string
Values == {NoValue, "", "x"}

\* the values the rows of the backing store hold
StoreValues == {NoValue, "x"}

\* the largest number of column bindings of a window
MaxCols == 2

\* the largest number of rows a retrieval by key yields
MaxRows == 2

\* the attribute bound by the i-th column binding
AttrNames == <<"a", "b", "c", "d">>

RowAttrs == {AttrNames[i] : i \in 1..MaxCols}

\* the fields of the bindings are text controls as AddTextField makes them,
\* editable or read-only; a field of any other kind is always editable and
\* behaves as the editable text control does
FieldKinds == {"TextCtrl", "ReadOnlyTextCtrl"}

TextCtrlKinds == {"TextCtrl", "ReadOnlyTextCtrl"}

----------------------------------------------------------------------------
\* helpers on the object record

Call(w, step) == [w EXCEPT !.log = Append(@, step)]

Raise(w, e) == [w EXCEPT !.raised = e]

Ok(w) == w.raised = NoError

\* a window object right after the toolkit constructor (wx.Dialog.__init__,
\* wx.Frame.__init__, wx.Panel.__init__), with the settings store it reads
NewWindow(settings) ==
    [log |-> <<>>, raised |-> NoError,
     okButton |-> FALSE, cancelButton |-> FALSE, closeBound |-> FALSE,
     size |-> DefaultSize, position |-> DefaultPosition,
     settings |-> settings]

EmptySettings == [Size |-> NoValue, Position |-> NoValue]

\* BaseControl.ReadSetting: the stored value, or the default when none is stored
ReadSetting(w, name, default) ==
    IF w.settings[name] = NoValue THEN default ELSE w.settings[name]

\* BaseControl.WriteSetting
WriteSetting(w, name, value) ==
    Call([w EXCEPT !.settings[name] = value], "WriteSetting:" \o name)

----------------------------------------------------------------------------
\* EditDialogColumn: a column binding is [attrName, required, field]; the
\* value its widget holds is widgets[i] of the window that owns the binding

\* EditDialogColumn.__init__, called by AddColumn: the binding is appended to
\* parent.columns; the new widget is empty
AddColumn(w, attrName, decl) ==
    [w EXCEPT !.columns = Append(@, [attrName |-> attrName,
                                      required |-> decl.required,
                                      field |-> decl.field]),
              !.widgets = Append(@, "")]

GetValue(w, i) == w.widgets[i]

IsEditable(w, i) ==
    IF w.columns[i].field \in TextCtrlKinds
    THEN w.columns[i].field = "TextCtrl"
    ELSE TRUE

SetValueEditableOnly(w, i, row) ==
    IF IsEditable(w, i)
    THEN [w EXCEPT !.widgets[i] = row[w.columns[i].attrName]]
    ELSE w

SetValue(w, i, row) ==
    [w EXCEPT !.widgets[i] = row[w.columns[i].attrName]]

UpdateFirstAttr(w, i) ==
    [w EXCEPT !.rows[1][w.columns[1].attrName] = GetValue(w, i)]

\* dataSet.SetValue(0, self.attrName, value)
Update(w, i) ==
    [w EXCEPT !.rows[1][w.columns[i].attrName] = GetValue(w, i)]

VerifyNoFocus(w, i) ==
    IF w.columns[i].required /\ GetValue(w, i) = NoValue
    THEN Raise(w, "RequiredFieldHasNoValue")
    ELSE w

Verify(w, i) ==
    IF w.columns[i].required /\ GetValue(w, i) = NoValue
    THEN Raise([w EXCEPT !.focus = i], "RequiredFieldHasNoValue")
    ELSE w

\* the loop of OnPreUpdate from column i on; an exception ends it
RECURSIVE PreUpdateFrom(_, _)
PreUpdateFrom(w, i) ==
    IF i > Len(w.columns) \/ ~Ok(w)
    THEN w
    ELSE LET v == Verify(w, i)
             w1 == IF ~IsEditable(w, i) THEN w
                   ELSE IF Ok(v) THEN Update(v, i) ELSE v
         IN PreUpdateFrom(w1, i + 1)

\* the refresh loop from column i on; focusField is the index of the first
\* editable column seen so far, 0 for None
RECURSIVE RefreshFrom(_, _, _)
RefreshFrom(w, i, focusField) ==
    IF i > Len(w.columns)
    THEN IF focusField # 0 THEN [w EXCEPT !.focus = focusField] ELSE w
    ELSE RefreshFrom(SetValue(w, i, w.rows[1]), i + 1,
                     IF focusField = 0 /\ IsEditable(w, i) THEN i
                     ELSE focusField)

\* the OnCreate of a subclass: one AddColumn for each declared column
RECURSIVE AddColumnsFrom(_, _, _)
AddColumnsFrom(c, w, i) ==
    IF i > Len(c.columns)
    THEN w
    ELSE AddColumnsFrom(c, AddColumn(w, AttrNames[i], c.columns[i]), i + 1)

----------------------------------------------------------------------------
\* DataEditPanel, the page of an EditDialogWithPanels; its data set is the
\* dialog's (dataSetClassName is None)

DataEditPanel_Retrieve(c, w) == RefreshFrom(w, 1, 0)

DataEditPanel_Initialize(c, w) ==
    LET w1 == [w EXCEPT !.columns = <<>>, !.widgets = <<>>]
        w2 == AddColumnsFrom(c, Call(w1, "page.OnCreate"), 1)
        w3 == Call(Call(w2, "page.OnLayout"), "page.RestoreSettings")
    IN RefreshFrom(w3, 1, 0)

DataEditPanel_OnPreUpdate(c, w) ==
    PreUpdateFrom(Call(w, "page.OnPreUpdate"), 1)

----------------------------------------------------------------------------
\* EditDialogBase and its subclasses

EditDialogBase_Update(c, w) == Call(Call(w, "_Update"), "dataSet.Update")

EditDialogChild_Update(c, w) == Call(w, "_Update")

EditDialog_OnPreUpdate(c, w) == PreUpdateFrom(Call(w, "OnPreUpdate"), 1)

EditDialogWithPanels_OnPreUpdate(c, w) ==
    DataEditPanel_OnPreUpdate(c, Call(w, "OnPreUpdate"))

EditDialogWithPanels_OnCreate(c, w) ==
    LET w1 == Call(w, "OnCreate")
        w2 == DataEditPanel_Initialize(c, w1)
    IN DataEditPanel_Retrieve(c, Call(w2, "page.Retrieve"))

EditDialog_OnCreate(c, w) == AddColumnsFrom(c, Call(w, "OnCreate"), 1)

\* self._Update(), dispatched on the class
Dispatch_Update(c, w) ==
    IF c.cls = "EditDialogChild"
    THEN EditDialogChild_Update(c, w)
    ELSE EditDialogBase_Update(c, w)

\* self.OnPreUpdate(), dispatched on the class
Dispatch_OnPreUpdate(c, w) ==
    IF c.cls = "EditDialogWithPanels"
    THEN EditDialogWithPanels_OnPreUpdate(c, w)
    ELSE EditDialog_OnPreUpdate(c, w)

EditDialogBase_OnOkUpdateFirst(c, w) ==
    LET w1 == Dispatch_Update(c, w)
        w2 == IF Ok(w1) THEN Dispatch_OnPreUpdate(c, w1) ELSE w1
    IN IF Ok(w2) THEN Call(w2, "OnPostUpdate") ELSE w2

EditDialogBase_OnOk(c, w) ==
    LET w1 == Dispatch_OnPreUpdate(c, w)
        w2 == IF Ok(w1) THEN Dispatch_Update(c, w1) ELSE w1
    IN IF Ok(w2) THEN Call(w2, "OnPostUpdate") ELSE w2

\* a row as dataSet.InsertRow() makes it
NewRow == [a \in RowAttrs |-> NoValue]

EditDialogBase_RetrieveRaiseOnEmpty(c, w, store) ==
    IF ~w.hasParentItem
    THEN Call([w EXCEPT !.rows = <<NewRow>>], "OnNewRow")
    ELSE LET w1 == [w EXCEPT !.rows = store, !.queried = TRUE]
         IN IF Len(w1.rows) = 0 THEN Raise(w1, "NoDataFound") ELSE w1

\* EditDialogBase.Retrieve; store is what dataSet.Retrieve(*args) yields for
\* the primary key of parentItem
EditDialogBase_Retrieve(c, w, store) ==
    IF ~w.hasParentItem
    THEN Call([w EXCEPT !.rows = <<NewRow>>], "OnNewRow")
    ELSE LET w1 == [w EXCEPT !.rows = store, !.queried = TRUE]
         IN IF Len(w1.rows) # 1 THEN Raise(w1, "NoDataFound") ELSE w1

EditDialogChild_Retrieve(c, w, store) ==
    IF w.hasParentItem
    THEN [w EXCEPT !.rows = <<w.parentItem>>]
    ELSE EditDialogBase_Retrieve(c, w, store)

\* self.Retrieve(parent), dispatched on the class
Dispatch_Retrieve(c, w, store) ==
    IF c.cls = "EditDialogChild"
    THEN EditDialogChild_Retrieve(c, w, store)
    ELSE EditDialogBase_Retrieve(c, w, store)

\* self.OnCreate(), dispatched on the class
Dispatch_OnCreate(c, w) ==
    CASE c.cls = "EditDialogWithPanels" -> EditDialogWithPanels_OnCreate(c, w)
      [] c.cls \in EditDialogClasses -> EditDialog_OnCreate(c, w)
      [] OTHER -> Call(w, "OnCreate")

\* self.OnOk(), dispatched on the class
Dispatch_OnOk(c, w) ==
    IF c.cls \in EditClasses
    THEN EditDialogBase_OnOk(c, Call(w, "OnOk"))
    ELSE Call(w, "OnOk")

----------------------------------------------------------------------------
\* BaseContainer

\* the restore without the minSize fallback
BaseContainer_RestoreSettingsNoDefault(c, w) ==
    LET size == ReadSetting(w, "Size", NoValue)
        w1 == IF c.saveSize /\ size # NoValue
              THEN Call([w EXCEPT !.size = size], "SetSize")
              ELSE w
        position == ReadSetting(w1, "Position", NoValue)
        w2 == IF c.savePosition /\ position # NoValue
              THEN Call([w1 EXCEPT !.position = position], "SetPosition")
              ELSE w1
    IN Call(w2, "RestoreSettings")

BaseContainer_RestoreSettings(c, w) ==
    LET size == ReadSetting(w, "Size", c.minSize)
        w1 == IF c.saveSize /\ size # NoValue
              THEN Call([w EXCEPT !.size = size], "SetSize")
              ELSE w
        position == ReadSetting(w1, "Position", NoValue)
        w2 == IF c.savePosition /\ position # NoValue
              THEN Call([w1 EXCEPT !.position = position], "SetPosition")
              ELSE w1
    IN Call(w2, "RestoreSettings")

BaseContainer_SaveSettings(c, w) ==
    LET w1 == IF c.saveSize THEN WriteSetting(w, "Size", w.size) ELSE w
        w2 == IF c.savePosition
              THEN WriteSetting(w1, "Position", w1.position)
              ELSE w1
    IN Call(Call(w2, "SaveSettings"), "Flush")

BaseContainer_OnLayout(c, w) ==
    LET w1 == Call(w, "SetSizer")
    IN IF c.minSize = NoValue
       THEN Call([w1 EXCEPT !.size = FitSize], "Fit")
       ELSE w1

\* reading self.okButton / self.cancelButton fails with AttributeError when
\* Dialog._OnCreate did not create the button
StandardDialog_OnLayout(c, w) ==
    IF ~w.okButton \/ ~w.cancelButton
    THEN Raise(w, "AttributeError")
    ELSE BaseContainer_OnLayout(c, Call(w, "AddButtonSizer"))

\* self._OnLayout(topSizer), dispatched on the class
Dispatch_OnLayout(c, w) ==
    IF c.cls \in StandardDialogClasses
    THEN StandardDialog_OnLayout(c, w)
    ELSE BaseContainer_OnLayout(c, w)

BaseContainer_OnCreate(c, w) ==
    LET w1 == IF c.bindClose
              THEN Call([w EXCEPT !.closeBound = TRUE], "BindClose")
              ELSE w
        w2 == Dispatch_OnCreate(c, w1)
        w3 == Call(w2, "OnLayout")
        w4 == IF c.layout THEN Dispatch_OnLayout(c, w3) ELSE w3
    IN IF Ok(w4) THEN BaseContainer_RestoreSettings(c, w4) ELSE w4

BaseContainer_OnCloseHookFirst(c, w) ==
    LET w1 == Call(w, "OnClose")
        w2 == BaseContainer_SaveSettings(c, w1)
    IN Call(w2, "event.Skip")

BaseContainer_OnClose(c, w) ==
    LET w1 == BaseContainer_SaveSettings(c, w)
        w2 == Call(w1, "OnClose")
    IN Call(w2, "event.Skip")

----------------------------------------------------------------------------
\* Dialog

Dialog_OnCreate(c, w) ==
    LET w1 == IF c.createOkButton
              THEN Call([w EXCEPT !.okButton = TRUE], "OkButton")
              ELSE w
        w2 == IF c.createCancelButton
              THEN Call([w1 EXCEPT !.cancelButton = TRUE], "CancelButton")
              ELSE w1
    IN BaseContainer_OnCreate(c, w2)

Dialog_OnOk(c, w) ==
    LET w1 == Dispatch_OnOk(c, w)
    IN IF Ok(w1) THEN BaseContainer_SaveSettings(c, w1) ELSE w1

Dialog_OnCancel(c, w) ==
    BaseContainer_SaveSettings(c, Call(w, "OnCancel"))

----------------------------------------------------------------------------
\* Frame

Frame_OnCreateSuperFirst(c, w) ==
    LET w0 == BaseContainer_OnCreate(c, w)
        w1 == IF c.hasToolbar /\ Ok(w0)
              THEN Call(Call(Call(w0, "SetToolBar"), "OnCreateToolbar"),
                        "Realize")
              ELSE w0
    IN IF c.hasMenus /\ Ok(w1)
       THEN Call(Call(w1, "SetMenuBar"), "OnCreateMenus")
       ELSE w1

Frame_OnCreate(c, w) ==
    LET w1 == IF c.hasToolbar
              THEN Call(Call(Call(w, "SetToolBar"), "OnCreateToolbar"),
                        "Realize")
              ELSE w
        w2 == IF c.hasMenus
              THEN Call(Call(w1, "SetMenuBar"), "OnCreateMenus")
              ELSE w1
    IN BaseContainer_OnCreate(c, w2)

----------------------------------------------------------------------------
\* construction

\* BaseControl._Initialize: calls self._OnCreate(), dispatched on the class
BaseControl_Initialize(c, w) ==
    CASE c.cls = "Frame" -> Frame_OnCreate(c, w)
      [] c.cls \in DialogClasses -> Dialog_OnCreate(c, w)
      [] OTHER -> BaseContainer_OnCreate(c, w)

BaseContainer_Initialize(c, w) ==
    LET w1 == IF c.minSize # NoValue THEN Call(w, "SetMinSize") ELSE w
    IN BaseControl_Initialize(c, w1)

\* Dialog.__init__, Frame.__init__, Panel.__init__: the toolkit constructor,
\* then self._Initialize()
Container_Init(c, w) == BaseContainer_Initialize(c, Call(w, "wx.__init__"))

\* EditDialogBase.__init__: the data set is retrieved before the window is
\* constructed
EditDialogBase_Init(c, w, store) ==
    LET w1 == Dispatch_Retrieve(c, w, store)
    IN IF Ok(w1) THEN Container_Init(c, w1) ELSE w1

\* EditDialog.__init__: after the base constructor, the refresh
EditDialog_Init(c, w, store) ==
    LET w1 == EditDialogBase_Init(c, [w EXCEPT !.columns = <<>>], store)
    IN IF Ok(w1) THEN RefreshFrom(w1, 1, 0) ELSE w1

\* cls(parent, parentItem = ...), dispatched on the class
Dispatch_Init(c, w, store) ==
    IF c.cls \in EditDialogClasses
    THEN EditDialog_Init(c, w, store)
    ELSE EditDialogBase_Init(c, w, store)

----------------------------------------------------------------------------
\* the class configurations: a class and the values its (sub)class gives
\* to the boolean class flags, to minSize, and whether OnLayout returns a sizer

Configs ==
    { c \in [cls : ContainerClasses, saveSize : BOOLEAN, savePosition : BOOLEAN,
             bindClose : BOOLEAN, createOkButton : BOOLEAN,
             createCancelButton : BOOLEAN, hasToolbar : BOOLEAN,
             hasMenus : BOOLEAN, minSize : MinSizes, layout : BOOLEAN] :
        /\ c.cls \notin DialogClasses =>
              ~c.createOkButton /\ ~c.createCancelButton
        /\ c.cls # "Frame" => ~c.hasToolbar /\ ~c.hasMenus }

\* an event handler starts with an empty log and no exception pending
StartHandler(w) == [w EXCEPT !.log = <<>>, !.raised = NoError]

Init ==
    /\ cfg \in Configs
    /\ win = NewWindow(EmptySettings)
    /\ phase = "new"
    /\ op = "none"

\* cls(parent, ...): a window is constructed, the first one or the next
\* one after the previous was closed; the settings store persists
Construct ==
    /\ phase \in {"new", "closed"}
    /\ win' = Container_Init(cfg, NewWindow(win.settings))
    /\ phase' = IF Ok(win') THEN "shown" ELSE "failed"
    /\ op' = "construct"
    /\ UNCHANGED cfg

\* the user drags the window to another size
Resize ==
    /\ phase = "shown"
    /\ \E s \in Sizes : win' = [win EXCEPT !.size = s]
    /\ UNCHANGED <<cfg, phase, op>>

\* the user drags the window to another position
Move ==
    /\ phase = "shown"
    /\ \E p \in Positions : win' = [win EXCEPT !.position = p]
    /\ UNCHANGED <<cfg, phase, op>>

\* the toolkit delivers wx.EVT_CLOSE: _OnClose runs when it was bound, and
\* the window is destroyed
Close ==
    /\ phase = "shown"
    /\ win' = IF win.closeBound
              THEN BaseContainer_OnClose(cfg, StartHandler(win))
              ELSE StartHandler(win)
    /\ phase' = "closed"
    /\ op' = "close"
    /\ UNCHANGED cfg

\* the OK button of a Dialog is pressed; the dialog ends when the handler
\* returns, and stays open when it raises
PressOk ==
    /\ phase = "shown"
    /\ win.okButton
    /\ win' = Dialog_OnOk(cfg, StartHandler(win))
    /\ phase' = IF Ok(win') THEN "closed" ELSE "shown"
    /\ op' = "ok"
    /\ UNCHANGED cfg

\* the Cancel button of a Dialog is pressed
PressCancel ==
    /\ phase = "shown"
    /\ win.cancelButton
    /\ win' = Dialog_OnCancel(cfg, StartHandler(win))
    /\ phase' = "closed"
    /\ op' = "cancel"
    /\ UNCHANGED cfg

Next ==
    \/ Construct
    \/ Resize
    \/ Move
    \/ Close
    \/ PressOk
    \/ PressCancel

Spec == Init /\ [][Next]_vars

----------------------------------------------------------------------------
\* properties of the window lifecycle

Count(log, step) == Cardinality({i \in 1..Len(log) : log[i] = step})

Has(log, step) == \E i \in 1..Len(log) : log[i] = step

\* no step of the log runs before a step of lower rank; rank 0 is unranked
InOrder(log, Rank(_)) ==
    \A i, j \in 1..Len(log) :
        (i < j /\ Rank(log[i]) # 0 /\ Rank(log[j]) # 0)
            => Rank(log[i]) <= Rank(log[j])

RestoreSteps == {"SetSize", "SetPosition", "RestoreSettings"}

ToolbarMenuSteps ==
    {"SetToolBar", "OnCreateToolbar", "Realize", "SetMenuBar", "OnCreateMenus"}

\* minimum size, OnCreate, toolbar/menus, OnLayout, restore
CreateFirstRank(step) ==
    CASE step = "SetMinSize" -> 1
      [] step = "OnCreate" -> 2
      [] step \in ToolbarMenuSteps -> 3
      [] step = "OnLayout" -> 4
      [] step \in RestoreSteps -> 5
      [] OTHER -> 0

ToolbarSteps == {"SetToolBar", "OnCreateToolbar", "Realize"}

MenuSteps == {"SetMenuBar", "OnCreateMenus"}

\* minimum size, toolbar, menus, OnCreate, OnLayout, restore
ToolbarFirstRank(step) ==
    CASE step = "SetMinSize" -> 1
      [] step \in ToolbarSteps -> 2
      [] step \in MenuSteps -> 3
      [] step = "OnCreate" -> 4
      [] step = "OnLayout" -> 5
      [] step \in RestoreSteps -> 6
      [] OTHER -> 0

\* C1 as stated: every construction runs minimum-size enforcement, then
\* OnCreate, then the toolbar and menu setup, then OnLayout, then the restore
\* of the settings, and no step runs before one that precedes it in this order.
C1_CreateHookBeforeToolbar ==
    op = "construct" => InOrder(win.log, CreateFirstRank)

\* C1 amended: every construction runs minimum-size enforcement (exactly when
\* minSize is set), then for frames the toolbar setup and the menu setup, then
\* OnCreate, then OnLayout, then the restore of the settings; no step runs
\* before one that precedes it in this order and none runs twice.
C1_LifecycleOrder ==
    op = "construct" =>
        /\ InOrder(win.log, ToolbarFirstRank)
        /\ Has(win.log, "SetMinSize") <=> cfg.minSize # NoValue
        /\ \A i, j \in 1..Len(win.log) : win.log[i] = win.log[j] => i = j
        /\ Has(win.log, "OnCreateToolbar") <=> cfg.hasToolbar
        /\ Has(win.log, "OnCreateMenus") <=> cfg.hasMenus

\* a frame with a minimum size, a toolbar and menus has been constructed
C1_Witness ==
    /\ op = "construct"
    /\ phase = "shown"
    /\ cfg.cls = "Frame"
    /\ cfg.minSize # NoValue
    /\ Has(win.log, "OnCreateToolbar")
    /\ Has(win.log, "OnCreateMenus")
    /\ Has(win.log, "OnCreate")
    /\ Has(win.log, "RestoreSettings")

\* C2: for every class and every combination of the class flags, one
\* construction calls OnCreate once, OnLayout once and RestoreSettings once; a
\* flag that is false skips only its own step.
C2_HooksOnce ==
    op = "construct" =>
        /\ Count(win.log, "OnCreate") = 1
        /\ Count(win.log, "OnLayout") = 1
        /\ Count(win.log, "RestoreSettings") = 1

\* what _OnClose leaves in the log of a close event
CloseLog(c) ==
    (IF c.saveSize THEN <<"WriteSetting:Size">> ELSE <<>>)
    \o (IF c.savePosition THEN <<"WriteSetting:Position">> ELSE <<>>)
    \o <<"SaveSettings", "Flush", "OnClose", "event.Skip">>

\* C3: a close event on a container with bindClose writes Size and Position
\* (each when its flag is set) with the window's geometry, calls SaveSettings,
\* flushes the store, then calls OnClose, then skips the event; on a
\* container without bindClose it runs nothing and writes no setting.
C3_CloseSavesThenOnClose ==
    [][(phase = "shown" /\ op' = "close") =>
          IF cfg.bindClose
          THEN /\ win'.log = CloseLog(cfg)
               /\ win'.settings.Size =
                     IF cfg.saveSize THEN win.size ELSE win.settings.Size
               /\ win'.settings.Position =
                     IF cfg.savePosition THEN win.position
                     ELSE win.settings.Position
          ELSE /\ win'.log = <<>>
               /\ win'.settings = win.settings]_vars

\* a close event has been handled after the user moved and resized the window
C3_Witness ==
    /\ op = "close"
    /\ cfg.bindClose
    /\ cfg.saveSize
    /\ cfg.savePosition
    /\ win.settings.Size \in Sizes
    /\ win.settings.Position \in Positions
    /\ Has(win.log, "OnClose")

----------------------------------------------------------------------------
\* the editing dialogs

ColumnDecls == [required : BOOLEAN, field : FieldKinds]

ColumnLists == UNION {[1..n -> ColumnDecls] : n \in 0..MaxCols}

\* the editing dialogs keep the class flags of StandardDialog; their OnLayout
\* always returns a sizer
EditConfigs ==
    { [cls |-> k, columns |-> cl, saveSize |-> TRUE, savePosition |-> TRUE,
       bindClose |-> TRUE, createOkButton |-> TRUE,
       createCancelButton |-> TRUE, hasToolbar |-> FALSE, hasMenus |-> FALSE,
       minSize |-> NoValue, layout |-> TRUE] :
        k \in EditClasses, cl \in ColumnLists }

StoreRows == [RowAttrs -> StoreValues]

\* the object before EditDialogBase.__init__ runs
NewEditWindow(hasParentItem, parentItem, matches) ==
    [log |-> <<>>, raised |-> NoError,
     okButton |-> FALSE, cancelButton |-> FALSE, closeBound |-> FALSE,
     size |-> DefaultSize, position |-> DefaultPosition,
     settings |-> EmptySettings,
     columns |-> <<>>, widgets |-> <<>>, rows |-> <<>>, focus |-> 0,
     hasParentItem |-> hasParentItem, parentItem |-> parentItem,
     matches |-> matches, queried |-> FALSE]

InitEdit ==
    /\ cfg \in EditConfigs
    /\ win = NewEditWindow(FALSE, NewRow, 0)
    /\ phase = "new"
    /\ op = "none"

\* an edit dialog is opened for a new row (no parentItem) or for an existing
\* item whose primary key resolves to n rows of the store (field matches)
OpenEdit ==
    /\ phase = "new"
    /\ \E existing \in BOOLEAN, item \in StoreRows, n \in 0..MaxRows :
          /\ ~existing => item = NewRow /\ n = 0
          /\ win' = Dispatch_Init(cfg, NewEditWindow(existing, item, n),
                                  [i \in 1..n |-> item])
    /\ phase' = IF Ok(win') THEN "shown" ELSE "failed"
    /\ op' = "construct"
    /\ UNCHANGED cfg

\* the user changes the value of an editable widget
ChangeWidget ==
    /\ phase = "shown"
    /\ \E i \in 1..Len(win.columns), v \in Values :
          /\ IsEditable(win, i)
          /\ win' = [win EXCEPT !.widgets[i] = v]
    /\ op' = "change"
    /\ UNCHANGED <<cfg, phase>>

\* the page of an EditDialogWithPanels is retrieved again
PageRetrieve ==
    /\ phase = "shown"
    /\ cfg.cls = "EditDialogWithPanels"
    /\ win' = DataEditPanel_Retrieve(cfg, StartHandler(win))
    /\ op' = "retrieve"
    /\ UNCHANGED <<cfg, phase>>

NextEdit ==
    \/ OpenEdit
    \/ ChangeWidget
    \/ PageRetrieve
    \/ PressOk
    \/ PressCancel
    \/ Close

SpecEdit == InitEdit /\ [][NextEdit]_vars

----------------------------------------------------------------------------
\* properties of the editing dialogs

\* the i-th binding of the window is editable: its field is no read-only
\* text control
Editable(i) == win.columns[i].field # "ReadOnlyTextCtrl"

Cols == 1..Len(win.columns)

PersistSteps ==
    {"WriteSetting:Size", "WriteSetting:Position", "SaveSettings", "Flush"}

CommitSteps == {"OnPreUpdate", "_Update", "OnPostUpdate"} \cup PersistSteps

IsCommitStep(step) == step \in CommitSteps

C5_RequiredNonEmpty ==
    (op = "ok" /\ Ok(win)) =>
        \A i \in Cols :
            win.columns[i].required => win.widgets[i] \notin {NoValue, ""}

\* the binding that validation stops at: editable, required, holding None
Offending(i) ==
    /\ Editable(i)
    /\ win.columns[i].required
    /\ win.widgets[i] = NoValue

\* C6: when an editable required binding holds no value at OK, the first such
\* field has the focus, RequiredFieldHasNoValue is raised out of the handler,
\* _Update, dataSet.Update and OnPostUpdate are not called, the settings are
\* not persisted, OnPreUpdate has run once and the dialog stays open;
\* otherwise OK raises nothing.
C6_RequiredAbortsCommit ==
    op = "ok" =>
        IF \E i \in Cols : Offending(i)
        THEN /\ win.raised = "RequiredFieldHasNoValue"
             /\ win.focus \in Cols
             /\ Offending(win.focus)
             /\ \A j \in 1..(win.focus - 1) : ~Offending(j)
             /\ ~Has(win.log, "_Update")
             /\ ~Has(win.log, "dataSet.Update")
             /\ ~Has(win.log, "OnPostUpdate")
             /\ \A i \in 1..Len(win.log) : win.log[i] \notin PersistSteps
             /\ Count(win.log, "OnPreUpdate") = 1
             /\ phase = "shown"
        ELSE Ok(win)

\* OK was aborted at the second binding
C6_Witness ==
    /\ op = "ok"
    /\ win.raised = "RequiredFieldHasNoValue"
    /\ win.focus = 2
    /\ ~Has(win.log, "_Update")

\* C7: a commit aborted by a required-field error leaves the rows of the
\* data set as they were before OK was pressed.
C7_AbortLeavesRows ==
    [][(phase = "shown" /\ op' = "ok" /\ ~Ok(win')) =>
          win'.rows = win.rows]_vars

\* C8: construction leaves the row as retrieved (or as inserted); changing a
\* widget, a refresh, Cancel and a close event leave the rows unchanged; OK
\* changes only attributes bound by an editable binding, each to the value of
\* the widget of its own binding, and a completed OK has written every
\* editable binding.
C8_WriteOnlyOnCommit ==
    [][/\ (op' = "construct" /\ Ok(win')) =>
             win'.rows = <<IF win'.hasParentItem THEN win'.parentItem
                           ELSE NewRow>>
       /\ (phase = "shown" /\ op' # "ok") => win'.rows = win.rows
       /\ (phase = "shown" /\ op' = "ok") =>
             /\ Len(win'.rows) = Len(win.rows)
             /\ \A a \in RowAttrs :
                   win'.rows[1][a] # win.rows[1][a] =>
                       \E i \in Cols :
                           /\ win.columns[i].attrName = a
                           /\ Editable(i)
                           /\ win'.rows[1][a] = win.widgets[i]
             /\ Ok(win') =>
                   \A i \in Cols :
                       Editable(i) =>
                           win'.rows[1][win.columns[i].attrName]
                               = win.widgets[i]]_vars

\* a commit has written the value of the second binding and left the
\* attribute of the read-only first binding alone, whose widget differs
C8_Witness ==
    /\ op = "ok"
    /\ Ok(win)
    /\ Len(win.columns) = 2
    /\ ~Editable(1)
    /\ Editable(2)
    /\ win.rows[1][AttrNames[2]] = ""
    /\ win.rows[1][AttrNames[1]] = "x"

\* 0 when no binding is editable
FirstEditable ==
    IF \E i \in Cols : Editable(i)
    THEN CHOOSE i \in Cols : Editable(i) /\ \A j \in 1..(i - 1) : ~Editable(j)
    ELSE 0

\* C9: after the refresh at the end of construction and after
\* DataEditPanel.Retrieve, the widget of every binding, editable or not, holds
\* the value of the binding's own attribute in row 0, the i-th binding being
\* bound to the i-th attribute; the first editable binding has the focus, and
\* with no editable binding no field was given the focus.
C9_RefreshCopiesRow ==
    (op \in {"construct", "retrieve"} /\ phase = "shown") =>
        /\ Len(win.columns) = Len(cfg.columns)
        /\ Len(win.widgets) = Len(win.columns)
        /\ \A i \in Cols :
              /\ win.columns[i].attrName = AttrNames[i]
              /\ win.widgets[i] = win.rows[1][AttrNames[i]]
        /\ (op = "construct" \/ FirstEditable # 0) => win.focus = FirstEditable

\* a refresh of two bindings whose attributes differ in value, the first of
\* them read-only
C9_Witness ==
    /\ op = "retrieve"
    /\ Len(win.columns) = 2
    /\ ~Editable(1)
    /\ Editable(2)
    /\ win.widgets[1] = "x"
    /\ win.widgets[2] = NoValue
    /\ win.focus = 2

\* C10 as stated: opening an edit dialog against an existing item raises
\* NoDataFound exactly when the item's key does not resolve to exactly one row.
C10_RaisedIffNotOneRow ==
    op = "construct" =>
        (win.raised = "NoDataFound" <=> (win.hasParentItem /\ win.matches # 1))

\* C10 amended: opening an EditDialog or an EditDialogWithPanels against an
\* existing item raises NoDataFound exactly when the retrieval by the item's
\* key does not yield exactly one row; an EditDialogChild opened against an
\* existing item retrieves nothing, takes its one row from the item and never
\* raises; the error is raised before the toolkit window is constructed and
\* before any hook runs; an open edit dialog holds exactly one row.
C10_NoDataFound ==
    /\ op = "construct" =>
          /\ win.raised = "NoDataFound" <=>
                /\ win.hasParentItem
                /\ cfg.cls # "EditDialogChild"
                /\ win.matches # 1
          /\ win.raised \in {NoError, "NoDataFound"}
          /\ win.raised = "NoDataFound" => win.log = <<>> /\ phase = "failed"
          /\ win.queried <=>
                (win.hasParentItem /\ cfg.cls # "EditDialogChild")
          /\ (win.hasParentItem /\ cfg.cls = "EditDialogChild") =>
                win.rows = <<win.parentItem>>
    /\ phase = "shown" => Len(win.rows) = 1

\* the key of the item resolved to more than one row
C10_Witness ==
    /\ op = "construct"
    /\ win.raised = "NoDataFound"
    /\ win.matches > 1
    /\ Len(win.rows) > 1

----------------------------------------------------------------------------
\* window geometry in the settings

SaveOps == {"close", "ok", "cancel"}

\* C12: a step that saves the settings writes "Size" exactly when saveSize
\* is true and "Position" exactly when savePosition is true, storing the
\* window's size and position and leaving a key it does not write alone; a
\* construction reads the same keys under the same flags and sets the window
\* to the stored size and position, so that what a close saved the next
\* construction restores; with saveSize and no stored "Size" the size
\* becomes minSize, and with neither SetSize is not called
C12_GeometryRoundTrip ==
    [][ /\ (phase = "shown" /\ phase' = "closed" /\ op' \in SaveOps
                             /\ Has(win'.log, "SaveSettings")) =>
              /\ Has(win'.log, "WriteSetting:Size") <=> cfg.saveSize
              /\ Has(win'.log, "WriteSetting:Position") <=> cfg.savePosition
              /\ win'.settings.Size =
                    IF cfg.saveSize THEN win.size ELSE win.settings.Size
              /\ win'.settings.Position =
                    IF cfg.savePosition THEN win.position
                    ELSE win.settings.Position
        /\ (phase # "shown" /\ op' = "construct"
                             /\ Has(win'.log, "RestoreSettings")) =>
              /\ win'.settings = win.settings
              /\ (cfg.saveSize /\ win.settings.Size # NoValue) =>
                    /\ win'.size = win.settings.Size
                    /\ Has(win'.log, "SetSize")
              /\ (cfg.saveSize /\ win.settings.Size = NoValue
                                /\ cfg.minSize # NoValue) =>
                    /\ win'.size = cfg.minSize
                    /\ Has(win'.log, "SetSize")
              /\ (~cfg.saveSize \/ (win.settings.Size = NoValue
                                     /\ cfg.minSize = NoValue)) =>
                    ~Has(win'.log, "SetSize")
              /\ (cfg.savePosition /\ win.settings.Position # NoValue) =>
                    /\ win'.position = win.settings.Position
                    /\ Has(win'.log, "SetPosition")
              /\ (~cfg.savePosition \/ win.settings.Position = NoValue) =>
                    ~Has(win'.log, "SetPosition")
      ]_vars

\* a window constructed after a close that saved a size and a position the
\* user had chosen, showing at that size and position
C12_Witness ==
    /\ op = "construct"
    /\ cfg.saveSize /\ cfg.savePosition
    /\ win.settings.Size \in Sizes
    /\ win.settings.Position \in Positions
    /\ win.size = win.settings.Size
    /\ win.position = win.settings.Position

----------------------------------------------------------------------------
\* DataList and DataListPanel: a list of the rows of a data set, with the
\* handlers of its context menu and accelerators.  The object record holds
\* the data set's rows by handle, the list's row handles in display order,
\* the selected item indexes, and the inputs the running handler received.

\* the largest number of items of the list
MaxItems == 2

\* item.attrNames
ItemAttrs == {"a", "b"}

ItemValues == {NoValue, "x"}

ItemRows == [ItemAttrs -> ItemValues]

\* dialog.dataSet.rows[0]: the row of the editing dialog, which may lack an
\* attribute of the list's items
DialogRows == UNION {[A -> ItemValues] : A \in {{"a"}, ItemAttrs}}

\* the class attributes and the place of the panel in the window tree; the
\* list lets any number of items be selected, what a list with
\* singleSelection allows being the selections of at most one item
ListConfigs ==
    [partOfEditDialog : BOOLEAN, editDialogName : {NoValue, "EditDialog"}]

\* what the environment answers to the running handler: the result of the
\* editing dialog's ShowModal, whether the dialog has IsEditingCanceled and
\* what it returns, the answer to the confirmation, the dialog's row, and
\* the index of the activated item (0 for none)
NoInput ==
    [result |-> "ID_CANCEL", canceled |-> "absent", response |-> "ID_NO",
     row |-> [n \in {"a"} |-> NoValue], index |-> 0]

\* a step of a list handler's log: a name and an item index, 0 for none
Step(name) == <<name, 0>>

NewList(n, rows) ==
    [rows |-> rows, rowHandles |-> [i \in 1..n |-> i], selected |-> {},
     log |-> <<>>, raised |-> NoError, inp |-> NoInput]

\* the elements of a set of numbers in ascending order
SortedSeq(S) ==
    CHOOSE q \in [1..Cardinality(S) -> S] :
        \A i, j \in 1..Cardinality(S) : i < j => q[i] < q[j]

Reversed(q) == [i \in 1..Len(q) |-> q[Len(q) + 1 - i]]

\* List.GetSelectedItemIndexes
List_GetSelectedItemIndexes(w) == SortedSeq(w.selected)

\* List.GetItem
List_GetItem(w, itemIndex) == w.rows[w.rowHandles[itemIndex]]

\* List.GetSelectedItems
List_GetSelectedItems(w) ==
    [i \in 1..Cardinality(w.selected) |->
        List_GetItem(w, List_GetSelectedItemIndexes(w)[i])]

\* List.Refresh: the control is filled again from the row handles
List_Refresh(w) == Call([w EXCEPT !.selected = {}], Step("Refresh"))

\* List.AppendItem(row, refresh = False): a new item at the end of the list,
\* under a handle of the data set that is not in use
List_AppendItem(w) ==
    LET handle == CHOOSE h \in 1..(Len(w.rowHandles) + 1) :
                      /\ h \notin DOMAIN w.rows
                      /\ \A k \in 1..(h - 1) : k \in DOMAIN w.rows
        w1 == [w EXCEPT !.rows = [k \in DOMAIN w.rows \cup {handle} |->
                                     IF k = handle
                                     THEN [n \in ItemAttrs |-> NoValue]
                                     ELSE w.rows[k]],
                        !.rowHandles = Append(@, handle)]
    IN Call(w1, <<"AppendItem", Len(w1.rowHandles)>>)

\* List.DeleteItem(itemIndex, refresh = False): the item leaves the list and
\* its row leaves the data set
List_DeleteItem(w, itemIndex) ==
    IF itemIndex \notin 1..Len(w.rowHandles)
    THEN Raise(w, "IndexError")
    ELSE LET handle == w.rowHandles[itemIndex]
             w1 == [w EXCEPT
                      !.rows = [k \in DOMAIN w.rows \ {handle} |-> w.rows[k]],
                      !.rowHandles =
                          [i \in 1..(Len(w.rowHandles) - 1) |->
                              IF i < itemIndex THEN w.rowHandles[i]
                              ELSE w.rowHandles[i + 1]]]
         IN Call(w1, <<"DeleteItem", itemIndex>>)

\* DataList._IsPartOfEditDialog and DataListPanel._IsPartOfEditDialog test
\* the same ancestor, the list's parent being the panel
DataList_IsPartOfEditDialog(c) == c.partOfEditDialog

DataListPanel_IsPartOfEditDialog(c) == c.partOfEditDialog

\* DataListPanel._UpdateListItem: every attribute of the item that the row
\* has is copied, onto the item itself when itemIndex is None (0 here), else
\* through the data set onto the row under the item index's handle
DataListPanel_UpdateListItem(w, item, row, itemIndex) ==
    LET handle == IF itemIndex = 0 THEN item ELSE w.rowHandles[itemIndex]
    IN [w EXCEPT !.rows[handle] =
            [n \in ItemAttrs |-> IF n \in DOMAIN row THEN row[n] ELSE @[n]]]

\* DataListPanel._OnEditItem; the item is named by its handle
DataListPanel_OnEditItem(c, w, item, itemIndex, row) ==
    LET w1 == DataListPanel_UpdateListItem(w, item, row, itemIndex)
        w2 == IF ~DataListPanel_IsPartOfEditDialog(c)
              THEN Call(w1, Step("ClearChanges"))
              ELSE w1
    IN List_Refresh(w2)

\* DataListPanel._OnInsertItems
DataListPanel_OnInsertItems(c, w, row) ==
    LET w1 == List_AppendItem(w)
        item == w1.rowHandles[Len(w1.rowHandles)]
        w2 == DataListPanel_UpdateListItem(w1, item, row, 0)
        w3 == IF ~DataListPanel_IsPartOfEditDialog(c)
              THEN Call(w2, Step("ClearChanges"))
              ELSE w2
    IN List_Refresh(w3)

\* DataListPanel.GetEditWindow returns a window exactly when editDialogName
\* is set
DataListPanel_HasEditWindow(c) == c.editDialogName # NoValue

\* the editing window is shown before its result is looked at
DataListPanel_EditItemAlways(c, w, item, itemIndex) ==
    IF ~DataListPanel_HasEditWindow(c)
    THEN w
    ELSE LET w1 == Call(Call(w, Step("OpenWindow")), Step("ShowModal"))
             w2 == DataListPanel_OnEditItem(c, w1, item, itemIndex, w.inp.row)
         IN Call(w2, Step("Destroy"))

DataListPanel_EditItem(c, w, item, itemIndex) ==
    IF ~DataListPanel_HasEditWindow(c)
    THEN w
    ELSE LET w1 == Call(Call(w, Step("OpenWindow")), Step("ShowModal"))
             w2 == IF w.inp.result = "ID_OK"
                   THEN DataListPanel_OnEditItem(c, w1, item, itemIndex,
                                                 w.inp.row)
                   ELSE w1
         IN Call(w2, Step("Destroy"))

DataListPanel_InsertItems(c, w) ==
    IF ~DataListPanel_HasEditWindow(c)
    THEN w
    ELSE LET w1 == Call(w, Step("OpenWindow"))
             w2 == IF w.inp.canceled # "yes"
                   THEN LET w3 == Call(w1, Step("ShowModal"))
                        IN IF w.inp.result = "ID_OK"
                           THEN DataListPanel_OnInsertItems(c, w3, w.inp.row)
                           ELSE w3
                   ELSE w1
         IN Call(w2, Step("Destroy"))

RECURSIVE DeleteFrom(_, _, _)
\* the loop of DataListPanel.DeleteItems over the item indexes
DeleteFrom(w, indexes, i) ==
    IF i > Len(indexes) \/ ~Ok(w)
    THEN w
    ELSE DeleteFrom(List_DeleteItem(w, indexes[i]), indexes, i + 1)

\* the selected items deleted in ascending index order
DataListPanel_DeleteItemsAscending(c, w) ==
    LET part == DataListPanel_IsPartOfEditDialog(c)
        w1 == IF part THEN w
              ELSE Call(Call(w, Step("Confirm.ShowModal")),
                        Step("Confirm.Destroy"))
    IN IF ~part /\ w.inp.response # "ID_YES"
       THEN w1
       ELSE LET w2 == DeleteFrom(w1, List_GetSelectedItemIndexes(w1), 1)
                w3 == IF ~Ok(w2) THEN w2
                      ELSE IF ~part THEN Call(w2, Step("Update")) ELSE w2
            IN IF Ok(w3) THEN List_Refresh(w3) ELSE w3

DataListPanel_DeleteItems(c, w) ==
    LET part == DataListPanel_IsPartOfEditDialog(c)
        w1 == IF part THEN w
              ELSE Call(Call(w, Step("Confirm.ShowModal")),
                        Step("Confirm.Destroy"))
    IN IF ~part /\ w.inp.response # "ID_YES"
       THEN w1
       ELSE LET w2 == DeleteFrom(w1,
                          Reversed(List_GetSelectedItemIndexes(w1)), 1)
                w3 == IF ~Ok(w2) THEN w2
                      ELSE IF ~part THEN Call(w2, Step("Update")) ELSE w2
            IN IF Ok(w3) THEN List_Refresh(w3) ELSE w3

\* DataListPanel.OnItemActivated
DataListPanel_OnItemActivated(c, w, itemIndex) ==
    DataListPanel_EditItem(c, w, w.rowHandles[itemIndex], itemIndex)

\* DataList.CanDeleteItems
DataList_CanDeleteItems(c, items) == TRUE

\* DataList.CanEditItem
DataList_CanEditItem(c, item) == c.editDialogName # NoValue

\* DataList.CanInsertItems
DataList_CanInsertItems(c) == c.editDialogName # NoValue

\* DataList.CanRefreshItems
DataList_CanRefreshItems(c) == ~DataList_IsPartOfEditDialog(c)

\* a menu item's Enable(flag)
Enable(w, item, flag) == Call(w, <<item, IF flag THEN 1 ELSE 0>>)

\* DataList.OnContextMenu
DataList_OnContextMenu(c, w) ==
    LET items == List_GetSelectedItems(w)
        deleteEnabled == Len(items) > 0 /\ DataList_CanDeleteItems(c, items)
        editEnabled == Len(items) = 1 /\ DataList_CanEditItem(c, items[1])
        w1 == Enable(w, "refreshMenuItem.Enable", DataList_CanRefreshItems(c))
        w2 == Enable(w1, "insertMenuItem.Enable", DataList_CanInsertItems(c))
        w3 == Enable(w2, "deleteMenuItem.Enable", deleteEnabled)
        w4 == Enable(w3, "editMenuItem.Enable", editEnabled)
    IN Call(w4, Step("menu.Popup"))

\* DataList._OnDeleteItems, with OnDeleteItems
DataList_OnDeleteItems(c, w) ==
    LET items == List_GetSelectedItems(w)
    IN IF DataList_CanDeleteItems(c, items)
       THEN DataListPanel_DeleteItems(c, Call(w, Step("OnDeleteItems")))
       ELSE w

\* DataList._OnEditItem, with OnEditItem
DataList_OnEditItem(c, w) ==
    LET itemIndexes == List_GetSelectedItemIndexes(w)
    IN IF Len(itemIndexes) = 1
       THEN LET itemIndex == itemIndexes[1]
                item == List_GetItem(w, itemIndex)
            IN IF DataList_CanEditItem(c, item)
               THEN DataListPanel_EditItem(c, Call(w, Step("OnEditItem")),
                                           w.rowHandles[itemIndex], itemIndex)
               ELSE w
       ELSE w

\* DataList._OnInsertItems, with OnInsertItems
DataList_OnInsertItems(c, w) ==
    IF DataList_CanInsertItems(c)
    THEN DataListPanel_InsertItems(c, Call(w, Step("OnInsertItems")))
    ELSE w

\* DataList._OnRefresh, with OnRefresh, which retrieves the list again
DataList_OnRefresh(c, w) ==
    IF DataList_CanRefreshItems(c)
    THEN Call(Call(w, Step("OnRefresh")), Step("Retrieve"))
    ELSE w

----------------------------------------------------------------------------
\* the specification of the list: a panel with its list after the first
\* retrieval, then the user's selections, menu entries and accelerators

\* a handler starts with an empty log and the inputs it will receive
StartList(w, inp) == [w EXCEPT !.log = <<>>, !.raised = NoError, !.inp = inp]

\* the inputs an editing handler can receive: nothing is asked when there is
\* no editing window, no result when the dialog is not shown, no row unless
\* the result is OK
EditInputs(c, canceledAnswers) ==
    IF ~DataListPanel_HasEditWindow(c)
    THEN {NoInput}
    ELSE {[NoInput EXCEPT !.canceled = "yes"] : x \in canceledAnswers \cap {"yes"}}
         \cup {[NoInput EXCEPT !.canceled = k] : k \in canceledAnswers \ {"yes"}}
         \cup {[NoInput EXCEPT !.canceled = k, !.result = "ID_OK", !.row = r] :
                  k \in canceledAnswers \ {"yes"}, r \in DialogRows}

InitList ==
    /\ cfg \in ListConfigs
    /\ \E n \in 0..MaxItems : \E rows \in [1..n -> ItemRows] :
          win = NewList(n, rows)
    /\ phase = "shown"
    /\ op = "none"

\* the user changes the selection
Select ==
    /\ \E S \in SUBSET (1..Len(win.rowHandles)) :
          win' = [StartList(win, NoInput) EXCEPT !.selected = S]
    /\ op' = "select"
    /\ UNCHANGED <<cfg, phase>>

\* a right click or the context-menu key
ContextMenu ==
    /\ win' = DataList_OnContextMenu(cfg, StartList(win, NoInput))
    /\ op' = "menu"
    /\ UNCHANGED <<cfg, phase>>

\* the Refresh entry or Ctrl-R
MenuRefresh ==
    /\ win' = DataList_OnRefresh(cfg, StartList(win, NoInput))
    /\ op' = "refresh"
    /\ UNCHANGED <<cfg, phase>>

\* the Insert entry or Ctrl-I
MenuInsert ==
    /\ Len(win.rowHandles) < MaxItems
    /\ \E inp \in EditInputs(cfg, {"absent", "no", "yes"}) :
          win' = DataList_OnInsertItems(cfg, StartList(win, inp))
    /\ op' = "insert"
    /\ UNCHANGED <<cfg, phase>>

\* the Edit entry or Ctrl-E
MenuEdit ==
    /\ \E inp \in EditInputs(cfg, {"absent"}) :
          win' = DataList_OnEditItem(cfg, StartList(win, inp))
    /\ op' = "edit"
    /\ UNCHANGED <<cfg, phase>>

\* the Delete entry or Ctrl-D
MenuDelete ==
    /\ \E response \in {"ID_YES", "ID_NO"} :
          /\ DataList_IsPartOfEditDialog(cfg) => response = "ID_NO"
          /\ win' = DataList_OnDeleteItems(cfg,
                        StartList(win, [NoInput EXCEPT !.response = response]))
    /\ op' = "delete"
    /\ UNCHANGED <<cfg, phase>>

\* a double click on an item
ItemActivated ==
    /\ \E itemIndex \in 1..Len(win.rowHandles) :
       \E inp \in EditInputs(cfg, {"absent"}) :
          win' = DataListPanel_OnItemActivated(cfg,
                     StartList(win, [inp EXCEPT !.index = itemIndex]),
                     itemIndex)
    /\ op' = "activate"
    /\ UNCHANGED <<cfg, phase>>

NextList ==
    \/ Select
    \/ ContextMenu
    \/ MenuRefresh
    \/ MenuInsert
    \/ MenuEdit
    \/ MenuDelete
    \/ ItemActivated

SpecList == InitList /\ [][NextList]_vars

----------------------------------------------------------------------------
\* properties of the list

\* a row after the attributes the dialog's row has were copied onto it
Merged(old, row) ==
    [n \in ItemAttrs |-> IF n \in DOMAIN row THEN row[n] ELSE old[n]]

EditOps == {"insert", "edit", "activate"}

\* C11: insert and edit open the editing window modally and change the list
\* only when it returns OK: an edit sets the dialog row's values on the row
\* under the edited item's handle and leaves every other row and the order
\* alone, an insert appends exactly one item holding the dialog row's
\* values, and both refresh the list; after any other result, or when there
\* is no editing window or it is not shown, the rows and the row handles are
\* unchanged
C11_ListChangesOnlyOnOk ==
    [][ op' \in EditOps =>
          LET shown == Has(win'.log, Step("ShowModal"))
              ok == shown /\ win'.inp.result = "ID_OK"
              row == win'.inp.row
              n == Len(win.rowHandles)
          IN /\ shown => /\ Has(win'.log, Step("OpenWindow"))
                         /\ cfg.editDialogName # NoValue
             /\ (ok /\ op' = "insert") =>
                   /\ Len(win'.rowHandles) = n + 1
                   /\ \A i \in 1..n : win'.rowHandles[i] = win.rowHandles[i]
                   /\ win'.rowHandles[n + 1] \notin DOMAIN win.rows
                   /\ DOMAIN win'.rows =
                         DOMAIN win.rows \cup {win'.rowHandles[n + 1]}
                   /\ \A h \in DOMAIN win.rows : win'.rows[h] = win.rows[h]
                   /\ win'.rows[win'.rowHandles[n + 1]] =
                         Merged([a \in ItemAttrs |-> NoValue], row)
                   /\ Has(win'.log, Step("Refresh"))
             /\ (ok /\ op' # "insert") =>
                   LET itemIndex == IF op' = "activate" THEN win'.inp.index
                                    ELSE CHOOSE i \in win.selected : TRUE
                       handle == win.rowHandles[itemIndex]
                   IN /\ op' = "edit" => win.selected = {itemIndex}
                      /\ win'.rowHandles = win.rowHandles
                      /\ win'.rows =
                            [win.rows EXCEPT ![handle] = Merged(@, row)]
                      /\ Has(win'.log, Step("Refresh"))
             /\ ~ok => /\ win'.rows = win.rows
                       /\ win'.rowHandles = win.rowHandles
                       /\ ~Has(win'.log, Step("Refresh"))
      ]_vars

\* an edit confirmed with a row that lacks an attribute of the item, on a
\* list whose handles are not its indexes
C11_Witness ==
    /\ op = "edit"
    /\ Has(win.log, Step("ShowModal"))
    /\ win.inp.result = "ID_OK"
    /\ DOMAIN win.inp.row = {"a"}
    /\ Has(win.log, Step("Refresh"))
    /\ win.rowHandles # [i \in 1..Len(win.rowHandles) |-> i]
    /\ \E h \in DOMAIN win.rows : win.rows[h]["a"] # win.rows[h]["b"]

\* the flag OnContextMenu would pass to a menu item's Enable in this state
MenuEnabled(item) ==
    Has(DataList_OnContextMenu(cfg, StartList(win, NoInput)).log, <<item, 1>>)

\* C15: a handler of the list's menu entries and accelerators performs its
\* operation only in a state in which OnContextMenu would enable its menu
\* item: refresh only when the list is not part of an edit dialog, insert
\* only when an edit dialog name is configured, edit only when exactly one
\* item is selected and it can be edited, delete only when at least one item
\* is selected and they can be deleted
C15_HandlersGuardedAsMenu ==
    [][ /\ (op' = "refresh" /\ Has(win'.log, Step("OnRefresh"))) =>
              /\ ~cfg.partOfEditDialog
              /\ MenuEnabled("refreshMenuItem.Enable")
        /\ (op' = "insert" /\ Has(win'.log, Step("OnInsertItems"))) =>
              /\ cfg.editDialogName # NoValue
              /\ MenuEnabled("insertMenuItem.Enable")
        /\ (op' = "edit" /\ Has(win'.log, Step("OnEditItem"))) =>
              /\ Cardinality(win.selected) = 1
              /\ cfg.editDialogName # NoValue
              /\ MenuEnabled("editMenuItem.Enable")
        /\ (op' = "delete" /\ Has(win'.log, Step("OnDeleteItems"))) =>
              /\ Cardinality(win.selected) >= 1
              /\ MenuEnabled("deleteMenuItem.Enable")
      ]_vars

IsDeleteStep(step) == step[1] = "DeleteItem"

\* the position of a step in a log, 0 when it is not there
Position(log, step) ==
    IF Has(log, step) THEN CHOOSE i \in 1..Len(log) : log[i] = step ELSE 0

\* C16: for a list that is not part of an edit dialog, DeleteItems asks for
\* confirmation and, unless the answer is Yes, deletes nothing, calls no
\* Update and does not refresh; on Yes it deletes exactly the selected items,
\* in descending index order, and then calls Update once.  For a list that
\* is part of an edit dialog, delete, insert and edit ask for no
\* confirmation and call neither Update nor ClearChanges on the list's data
\* set
C16_PersistOnlyStandAlone ==
    [][ /\ (op' = "delete" /\ Has(win'.log, Step("OnDeleteItems"))
                           /\ ~cfg.partOfEditDialog) =>
              /\ Has(win'.log, Step("Confirm.ShowModal"))
              /\ win'.inp.response # "ID_YES" =>
                    /\ win'.rows = win.rows
                    /\ win'.rowHandles = win.rowHandles
                    /\ SelectSeq(win'.log, IsDeleteStep) = <<>>
                    /\ ~Has(win'.log, Step("Update"))
                    /\ ~Has(win'.log, Step("Refresh"))
              /\ win'.inp.response = "ID_YES" =>
                    LET indexes == Reversed(SortedSeq(win.selected))
                        gone == {win.rowHandles[i] : i \in win.selected}
                        deletes == SelectSeq(win'.log, IsDeleteStep)
                    IN /\ deletes = [i \in 1..Len(indexes) |->
                                        <<"DeleteItem", indexes[i]>>]
                       /\ DOMAIN win'.rows = DOMAIN win.rows \ gone
                       /\ \A h \in DOMAIN win'.rows :
                             win'.rows[h] = win.rows[h]
                       /\ win'.rowHandles =
                             SelectSeq(win.rowHandles,
                                       LAMBDA h : h \notin gone)
                       /\ Count(win'.log, Step("Update")) = 1
                       /\ \A i \in 1..Len(win'.log) :
                             IsDeleteStep(win'.log[i]) =>
                                i < Position(win'.log, Step("Update"))
        /\ (op' \in EditOps \cup {"delete"} /\ cfg.partOfEditDialog) =>
              /\ ~Has(win'.log, Step("Confirm.ShowModal"))
              /\ ~Has(win'.log, Step("Update"))
              /\ ~Has(win'.log, Step("ClearChanges"))
      ]_vars

\* a confirmed deletion of two selected items of a stand-alone list
C16_Witness ==
    /\ op = "delete"
    /\ ~cfg.partOfEditDialog
    /\ win.inp.response = "ID_YES"
    /\ Len(SelectSeq(win.log, IsDeleteStep)) = 2
    /\ Has(win.log, Step("Update"))

----------------------------------------------------------------------------
\* GridEditWindow and SubWindow: a window with a grid and the sub-windows it
\* registered, each of which opens a child window that is again a
\* GridEditWindow.  A window is named by its depth below the top window and
\* its kind: a "grid" window registers two sub-windows of its own, a "grid"
\* one and a "leaf" one, down to the configured depth; a "leaf" window
\* registers none.

\* the largest depth of a child window below the top window
MaxDepth == 2

\* the largest number of retrievals waiting in wx.CallAfter
MaxPending == 2

\* the largest number of windows opened through one SubWindow and not yet
\* destroyed
MaxOpen == 2

Root == <<0, "grid">>

\* the parent of the top window
Outer == <<0, "outer">>

SubKinds == <<"grid", "leaf">>

\* every child window there can be
SubNodes == {<<d, SubKinds[k]>> : d \in 1..MaxDepth, k \in 1..Len(SubKinds)}

\* self.subWindows of window p, in the order of the AddSubWindow calls
SubWindowsOf(c, p) ==
    IF p[2] = "grid" /\ p[1] < c.depth
    THEN [k \in 1..Len(SubKinds) |-> <<p[1] + 1, SubKinds[k]>>]
    ELSE <<>>

\* self.GetParent()
ParentOf(p) ==
    IF p[1] = 0 THEN Outer ELSE IF p[1] = 1 THEN Root ELSE <<p[1] - 1, "grid">>

\* the child windows below window p
Descendants(p) ==
    IF p[2] = "grid" THEN {q \in SubNodes : q[1] > p[1]} ELSE {}

GridRowIndexes == {1, 2}

\* the row of window p's grid at a row index
GridRow(p, r) == [key |-> r, owner |-> p[1]]

\* retrievalAttrNames.split()
Split(names) ==
    CASE names = "key" -> <<"key">>
      [] names = "key owner" -> <<"key", "owner">>
      [] names = "owner key" -> <<"owner", "key">>

GridConfigs ==
    [depth : 0..MaxDepth,
     retrievalAttrNames : {NoValue, "key", "key owner", "owner key"},
     isModal : BOOLEAN]

\* what the environment gives the running handler: the answers of
\* ContinueQuery and ContinueQueryChildren, the row of the selection event
\* and the sub-window whose button was pressed
NoGridInput ==
    [continueQuery |-> TRUE, continueQueryChildren |-> TRUE, row |-> 1,
     sub |-> Root]

\* a step of a grid handler's log: a name, the window and the arguments
GStep(name, p) == <<name, p, <<>>>>

\* the top window after construction: no sub-window has a window, the grid
\* cursor is on the first row, nothing waits in wx.CallAfter
NewGrid ==
    [window |-> [q \in SubNodes |-> "None"],
     opened |-> [q \in SubNodes |-> 0],
     cursorRow |-> 1, pending |-> <<>>,
     log |-> <<>>, raised |-> NoError, inp |-> NoGridInput]

\* GridEditWindow.GetCurrentRow: the row under the grid cursor, which the
\* user moves in the top window only
GridEditWindow_GetCurrentRow(w, p) ==
    IF p = Root THEN GridRow(p, w.cursorRow) ELSE GridRow(p, 1)

\* GridEditWindow.GetRetrievalArgs
GridEditWindow_GetRetrievalArgs(c, w, p) ==
    IF c.retrievalAttrNames = NoValue
    THEN <<>>
    ELSE LET parentRow == GridEditWindow_GetCurrentRow(w, ParentOf(p))
             names == Split(c.retrievalAttrNames)
         IN [i \in 1..Len(names) |-> parentRow[names[i]]]

RECURSIVE GridEditWindow_Retrieve(_, _, _, _)
RECURSIVE RetrieveSubWindowsAsking(_, _, _, _)
RECURSIVE RetrieveSubWindowsFrom(_, _, _, _)

\* the loop with continueQuery left at its default
RetrieveSubWindowsAsking(c, w, p, i) ==
    LET subs == SubWindowsOf(c, p)
    IN IF i > Len(subs)
       THEN w
       ELSE LET w1 == IF w.window[subs[i]] # "live"
                      THEN w
                      ELSE GridEditWindow_Retrieve(c, w, subs[i], TRUE)
            IN RetrieveSubWindowsAsking(c, w1, p, i + 1)

\* the loop of GridEditWindow.RetrieveSubWindows, from the i-th sub-window;
\* a sub-window's window is false when it is None or destroyed
RetrieveSubWindowsFrom(c, w, p, i) ==
    LET subs == SubWindowsOf(c, p)
    IN IF i > Len(subs)
       THEN w
       ELSE LET w1 == IF w.window[subs[i]] # "live"
                      THEN w
                      ELSE GridEditWindow_Retrieve(c, w, subs[i], FALSE)
            IN RetrieveSubWindowsFrom(c, w1, p, i + 1)

GridEditWindow_RetrieveSubWindows(c, w, p) == RetrieveSubWindowsFrom(c, w, p, 1)

\* GridEditWindow.Retrieve(continueQuery)
GridEditWindow_Retrieve(c, w, p, continueQuery) ==
    LET w1 == IF continueQuery THEN Call(w, GStep("ContinueQuery", p)) ELSE w
    IN IF continueQuery /\ ~w.inp.continueQuery
       THEN w1
       ELSE LET args == GridEditWindow_GetRetrievalArgs(c, w1, p)
                w2 == Call(w1, <<"grid.Retrieve", p, args>>)
                w3 == GridEditWindow_RetrieveSubWindows(c, w2, p)
            IN Call(w3, GStep("OnRetrieve", p))

\* wx.CallAfter(callable): the call waits until the running handler and the
\* event's processing are over
CallAfter(w, p, callable) ==
    Call([w EXCEPT !.pending = Append(@, callable)], GStep("CallAfter", p))

\* the handler retrieving the sub-windows itself
GridEditWindow_OnCellSelectedDirect(c, w, p) ==
    LET currentRow == w.cursorRow
    IN IF w.inp.row # currentRow /\ SubWindowsOf(c, p) # <<>>
       THEN LET w1 == Call(w, GStep("ContinueQueryChildren", p))
            IN IF ~w.inp.continueQueryChildren
               THEN Call(w1, GStep("event.Veto", p))
               ELSE Call(GridEditWindow_RetrieveSubWindows(c, w1, p),
                         GStep("event.Skip", p))
       ELSE Call(w, GStep("event.Skip", p))

\* GridEditWindow.OnCellSelected, bound with skipEvent = False
GridEditWindow_OnCellSelected(c, w, p) ==
    LET currentRow == w.cursorRow
    IN IF w.inp.row # currentRow /\ SubWindowsOf(c, p) # <<>>
       THEN LET w1 == Call(w, GStep("ContinueQueryChildren", p))
            IN IF ~w.inp.continueQueryChildren
               THEN Call(w1, GStep("event.Veto", p))
               ELSE Call(CallAfter(w1, p, "RetrieveSubWindows"),
                         GStep("event.Skip", p))
       ELSE Call(w, GStep("event.Skip", p))

\* GridEditWindow._OnCreate of a new child window: its sub-windows have no
\* window yet, and it ends with self.Retrieve()
GridEditWindow_OnCreate(c, w, p) ==
    LET w1 == [w EXCEPT !.window = [q \in SubNodes |->
                                       IF q \in Descendants(p) THEN "None"
                                       ELSE @[q]],
                        !.opened = [q \in SubNodes |->
                                       IF q \in Descendants(p) THEN 0
                                       ELSE @[q]]]
    IN GridEditWindow_Retrieve(c, w1, p, TRUE)

\* parent.OpenWindow(childWindowName, ...): the child window is constructed
OpenWindow(c, w, q) ==
    LET w1 == Call([w EXCEPT !.opened[q] = @ + 1], GStep("OpenWindow", q))
    IN GridEditWindow_OnCreate(c, w1, q)

\* a child window opened at every call
SubWindow_OpenAlways(c, w, q) ==
    LET w1 == [OpenWindow(c, w, q) EXCEPT !.window[q] = "live"]
    IN IF c.isModal
       THEN Call(w1, GStep("ShowModal", q))
       ELSE Call(w1, GStep("Show", q))

\* SubWindow.Open, for the sub-window whose child window is q
SubWindow_Open(c, w, q) ==
    IF w.window[q] = "live"
    THEN Call(w, GStep("SetFocus", q))
    ELSE LET w1 == [OpenWindow(c, w, q) EXCEPT !.window[q] = "live"]
         IN IF c.isModal
            THEN Call(w1, GStep("ShowModal", q))
            ELSE Call(w1, GStep("Show", q))

\* GridEditWindow.OnOpenSubWindow
GridEditWindow_OnOpenSubWindow(c, w, q) == SubWindow_Open(c, w, q)

----------------------------------------------------------------------------
\* the specification of the grid windows

StartGrid(w, inp) == [w EXCEPT !.log = <<>>, !.raised = NoError, !.inp = inp]

\* the child windows whose parent window is there to press a button in
Openable(c, w) ==
    {q \in SubNodes : /\ q[1] <= c.depth
                      /\ (ParentOf(q) = Root \/ w.window[ParentOf(q)] = "live")}

InitGrid ==
    /\ cfg \in GridConfigs
    /\ win = NewGrid
    /\ phase = "shown"
    /\ op = "none"

\* the grid of the top window reports a cell selection; when the handler
\* passes the event on, the grid moves its cursor to the event's row
CellSelected ==
    /\ Len(win.pending) < MaxPending
    /\ \E row \in GridRowIndexes : \E answer \in BOOLEAN :
          /\ (row = win.cursorRow \/ cfg.depth = 0) => answer
          /\ LET w == GridEditWindow_OnCellSelected(cfg,
                         StartGrid(win, [NoGridInput EXCEPT
                                            !.row = row,
                                            !.continueQueryChildren = answer]),
                         Root)
             IN win' = IF Has(w.log, GStep("event.Skip", Root))
                       THEN [w EXCEPT !.cursorRow = row]
                       ELSE w
    /\ op' = "select"
    /\ UNCHANGED <<cfg, phase>>

\* the event loop runs the call that waits longest in wx.CallAfter
RunPending ==
    /\ win.pending # <<>>
    /\ Head(win.pending) = "RetrieveSubWindows"
    /\ win' = GridEditWindow_RetrieveSubWindows(cfg,
                  [StartGrid(win, NoGridInput) EXCEPT !.pending = Tail(@)],
                  Root)
    /\ op' = "deferred"
    /\ UNCHANGED <<cfg, phase>>

\* the Retrieve toolbar item or Ctrl-R of the top window
ToolbarRetrieve ==
    /\ \E answer \in BOOLEAN :
          win' = GridEditWindow_Retrieve(cfg,
                     StartGrid(win, [NoGridInput EXCEPT
                                        !.continueQuery = answer]),
                     Root, TRUE)
    /\ op' = "retrieve"
    /\ UNCHANGED <<cfg, phase>>

\* the button of a sub-window is pressed
OpenSub ==
    /\ \E q \in Openable(cfg, win) : \E answer \in BOOLEAN :
          /\ win.opened[q] < MaxOpen
          /\ win.window[q] = "live" => answer
          /\ win' = GridEditWindow_OnOpenSubWindow(cfg,
                        StartGrid(win, [NoGridInput EXCEPT
                                           !.sub = q,
                                           !.continueQuery = answer]),
                        q)
    /\ op' = "open"
    /\ UNCHANGED <<cfg, phase>>

\* the user closes a child window: a frame is destroyed, with the windows
\* below it; a window shown modally ends its modal loop and is hidden, not
\* destroyed
CloseSub ==
    /\ \E q \in SubNodes :
          /\ win.window[q] = "live"
          /\ LET w == StartGrid(win, [NoGridInput EXCEPT !.sub = q])
             IN win' = IF cfg.isModal
                       THEN Call(w, GStep("EndModal", q))
                       ELSE Call([w EXCEPT
                                   !.window = [r \in SubNodes |->
                                       IF r = q THEN "dead"
                                       ELSE IF r \in Descendants(q)
                                            THEN "None" ELSE @[r]],
                                   !.opened = [r \in SubNodes |->
                                       IF r = q THEN @[r] - 1
                                       ELSE IF r \in Descendants(q)
                                            THEN 0 ELSE @[r]]],
                                 GStep("Destroy", q))
    /\ op' = "closesub"
    /\ UNCHANGED <<cfg, phase>>

NextGrid ==
    \/ CellSelected
    \/ RunPending
    \/ ToolbarRetrieve
    \/ OpenSub
    \/ CloseSub

SpecGrid == InitGrid /\ [][NextGrid]_vars

----------------------------------------------------------------------------
\* properties of the grid windows

IsRetrieveStep(step) == step[1] = "grid.Retrieve"

IsContinueQueryStep(step) == step[1] = "ContinueQuery"

\* the position in a log of the step of a name by a window, 0 when it is
\* not there
StepIndex(log, name, p) ==
    IF \E i \in 1..Len(log) : log[i][1] = name /\ log[i][2] = p
    THEN CHOOSE i \in 1..Len(log) : log[i][1] = name /\ log[i][2] = p
    ELSE 0

StepCount(log, name, p) ==
    Cardinality({i \in 1..Len(log) : log[i][1] = name /\ log[i][2] = p})

\* the values of the retrieval attributes in the current row of the parent
\* of window q: the top window's cursor row for its children, the first row
\* elsewhere
ParentRowArgs(w, q) ==
    LET r == IF ParentOf(q) = Root THEN w.cursorRow ELSE 1
        o == ParentOf(q)[1]
    IN CASE cfg.retrievalAttrNames = NoValue -> <<>>
         [] cfg.retrievalAttrNames = "key" -> <<r>>
         [] cfg.retrievalAttrNames = "key owner" -> <<r, o>>
         [] cfg.retrievalAttrNames = "owner key" -> <<o, r>>

\* the child windows that are open
Live(w) == {q \in SubNodes : w.window[q] = "live"}

\* C13: the handler of a cell selection retrieves no window itself.  When the
\* selection moves to another row and sub-windows are registered, it asks
\* ContinueQueryChildren; on a yes it schedules RetrieveSubWindows with
\* wx.CallAfter and then passes the event on, on a no it vetoes the event,
\* does not pass it on and schedules nothing.  A selection on the current
\* row, or with no sub-window registered, is passed on and schedules
\* nothing.  The scheduled retrieval runs in a later step of the event loop,
\* taking the call off the queue and retrieving the open sub-windows for the
\* row the cursor is on by then.
C13_RetrievalDeferred ==
    [][ /\ op' = "select" =>
              LET row == win'.inp.row
                  moved == row # win.cursorRow /\ SubWindowsOf(cfg, Root) # <<>>
                  go == win'.inp.continueQueryChildren
              IN /\ SelectSeq(win'.log, IsRetrieveStep) = <<>>
                 /\ (moved /\ go) =>
                       /\ win'.log = <<GStep("ContinueQueryChildren", Root),
                                       GStep("CallAfter", Root),
                                       GStep("event.Skip", Root)>>
                       /\ win'.pending =
                             Append(win.pending, "RetrieveSubWindows")
                       /\ win'.cursorRow = row
                 /\ (moved /\ ~go) =>
                       /\ win'.log = <<GStep("ContinueQueryChildren", Root),
                                       GStep("event.Veto", Root)>>
                       /\ win'.pending = win.pending
                       /\ win'.cursorRow = win.cursorRow
                 /\ ~moved =>
                       /\ win'.log = <<GStep("event.Skip", Root)>>
                       /\ win'.pending = win.pending
        /\ op' = "deferred" =>
              /\ win.pending # <<>>
              /\ win'.pending = Tail(win.pending)
              /\ \A q \in SubNodes :
                    q \in Live(win) <=>
                       Has(win'.log, <<"grid.Retrieve", q, ParentRowArgs(win, q)>>)
        /\ op' \notin {"select", "deferred"} => win'.pending = win.pending
      ]_vars

\* a deferred retrieval of an open sub-window after the cursor moved to the
\* second row
C13_Witness ==
    /\ op = "deferred"
    /\ win.cursorRow = 2
    /\ cfg.retrievalAttrNames = "key"
    /\ Has(win.log, <<"grid.Retrieve", <<1, "grid">>, <<2>>>>)

\* C14: no SubWindow has more than one window opened through it and not
\* destroyed.  Open on a SubWindow whose window is alive only gives that
\* window the focus; otherwise it calls OpenWindow once and shows the new
\* window with ShowModal exactly when isModal is true, with Show otherwise.
C14_OneWindowPerSubWindow ==
    [][ /\ \A q \in SubNodes : win'.opened[q] <= 1
        /\ op' = "open" =>
              LET q == win'.inp.sub
                  n == Len(win'.log)
              IN /\ win.window[q] = "live" =>
                       /\ win'.log = <<GStep("SetFocus", q)>>
                       /\ win'.window = win.window
                       /\ win'.opened = win.opened
                 /\ win.window[q] # "live" =>
                       /\ win'.log[1] = GStep("OpenWindow", q)
                       /\ Cardinality({i \in 1..n :
                                         win'.log[i][1] = "OpenWindow"}) = 1
                       /\ win'.window[q] = "live"
                       /\ win'.opened[q] = 1
                       /\ win'.log[n] = IF cfg.isModal
                                        THEN GStep("ShowModal", q)
                                        ELSE GStep("Show", q)
                       /\ StepCount(win'.log, "ShowModal", q) =
                             IF cfg.isModal THEN 1 ELSE 0
                       /\ StepCount(win'.log, "Show", q) =
                             IF cfg.isModal THEN 0 ELSE 1
                       /\ StepCount(win'.log, "SetFocus", q) = 0
      ]_vars

\* Open on a SubWindow of a child window, whose window is alive
C14_Witness ==
    /\ op = "open"
    /\ win.log = <<GStep("SetFocus", <<2, "leaf">>)>>
    /\ win.opened[<<2, "leaf">>] = 1

\* C17: Retrieve with continueQuery true asks ContinueQuery first and, on a
\* no, does nothing more: no grid and no sub-window is retrieved and
\* OnRetrieve does not run.  On a yes it retrieves its grid with the values
\* of the retrieval attributes in the parent's current row, then every
\* sub-window that has an open window, at every depth, each once, after its
\* parent's grid and before its parent's OnRetrieve, in the order of
\* registration, and none of them asks ContinueQuery; its own OnRetrieve
\* runs last.  A sub-window without an open window is not retrieved.  A
\* deferred RetrieveSubWindows asks ContinueQuery of no window either.
C17_RetrieveCascade ==
    [][ /\ op' = "retrieve" =>
              LET log == win'.log
                  n == Len(log)
                  retrieved == {log[i][2] : i \in {k \in 1..n :
                                                     IsRetrieveStep(log[k])}}
                  ran == {log[i][2] : i \in {k \in 1..n :
                                               log[k][1] = "OnRetrieve"}}
              IN /\ log[1] = GStep("ContinueQuery", Root)
                 /\ Len(SelectSeq(log, IsContinueQueryStep)) = 1
                 /\ win'.window = win.window
                 /\ ~win'.inp.continueQuery => n = 1
                 /\ win'.inp.continueQuery =>
                       /\ log[2] = <<"grid.Retrieve", Root,
                                     ParentRowArgs(win, Root)>>
                       /\ log[n] = GStep("OnRetrieve", Root)
                       /\ retrieved = {Root} \cup Live(win)
                       /\ ran = retrieved
                       /\ \A q \in retrieved :
                             /\ StepCount(log, "grid.Retrieve", q) = 1
                             /\ StepCount(log, "OnRetrieve", q) = 1
                             /\ Has(log, <<"grid.Retrieve", q,
                                           ParentRowArgs(win, q)>>)
                             /\ StepIndex(log, "grid.Retrieve", q) <
                                   StepIndex(log, "OnRetrieve", q)
                       /\ \A q \in Live(win) :
                             /\ ParentOf(q) \in retrieved
                             /\ StepIndex(log, "grid.Retrieve", ParentOf(q)) <
                                   StepIndex(log, "grid.Retrieve", q)
                             /\ StepIndex(log, "OnRetrieve", q) <
                                   StepIndex(log, "OnRetrieve", ParentOf(q))
                       /\ \A d \in 1..MaxDepth :
                             {<<d, "grid">>, <<d, "leaf">>} \subseteq Live(win) =>
                                StepIndex(log, "OnRetrieve", <<d, "grid">>) <
                                   StepIndex(log, "grid.Retrieve", <<d, "leaf">>)
        /\ op' = "deferred" => SelectSeq(win'.log, IsContinueQueryStep) = <<>>
      ]_vars

\* a retrieval that went on after ContinueQuery, reached a window two
\* levels down and skipped a sub-window whose window was destroyed
C17_Witness ==
    /\ op = "retrieve"
    /\ win.inp.continueQuery
    /\ cfg.retrievalAttrNames = "owner key"
    /\ win.window[<<1, "leaf">>] = "dead"
    /\ win.window[<<2, "leaf">>] = "None"
    /\ Has(win.log, <<"grid.Retrieve", <<2, "grid">>, <<1, 1>>>>)
    /\ Has(win.log, <<"grid.Retrieve", <<1, "grid">>, <<0, win.cursorRow>>>>)
    /\ win.cursorRow = 2

====
